---- MODULE Spec2Model ----
(***************************************************************************)
(* Flashspan: the session synchronization controller of the front end      *)
(* (the App component, latest draft) together with the command gateway,    *)
(* the event subscriber and the native window it drives.                   *)
(*                                                                         *)
(* Every signal of the component that the controller logic reads or writes *)
(* is a variable.  Every asynchronous function is split at its awaits: one *)
(* action per synchronous stretch of code.  The backend and the window     *)
(* manager are the environment: they answer commands, push events and      *)
(* answer native window calls nondeterministically.                        *)
(***************************************************************************)
EXTENDS Integers, Sequences, FiniteSets, TLC

(* ------------------------------ bounds --------------------------------- *)
\* number of start() calls that may be in flight at the same time
MaxStartCalls == 1
\* number of sessions the backend creates before it rejects further starts
MaxSessions == 2
\* number of stop() calls that may be in flight at the same time
MaxStops == 2
\* numbers flashed per session
NumbersPerSession == 2
\* largest seconds_left carried by an auto_repeat_tick
MaxSeconds == 1
\* largest remaining count carried by an auto-repeat payload
MaxRemaining == 1
\* longest text given to parseUserSum
MaxLen == 3

(* ------------------------- program constants --------------------------- *)
\* for (let i = 0; i < 30; i += 1) in forceFullscreenBeforeStart
MaxFullscreenAttempts == 30
\* createSignal<number>(5) of autoRepeatCount
InitialAutoRepeatCount == 5
\* createSignal<number>(1) of digitsPerNumber
InitialDigitsPerNumber == 1

\* sessionId() === null
NoSession == 0
\* autoRepeatSecondsLeft() === null
NoSeconds == -1

Phases == {"idle", "starting", "countdown", "flashing", "complete"}

\* values the backend may report as effective digits_per_number
DigitsValues == {1, 2}
\* values typed into the Repeats input, as a JavaScript number in tenths
\* (50 is 5, 255 is 25.5)
RepeatInputs == {50, 255}
\* the empty string; a text is the sequence of its characters
NoText == <<>>
\* texts typed into the answer input
AnswerInputs == {NoText, <<"4", "2">>}
\* the characters of the texts given to parseUserSum
Chars == {"4", "2", "1", "7", "+", "-", ",", " ", "x"}
\* the expected sums the typed answer is compared with
ExpectedInputs == {-17, 0, 4, 42}

VARIABLES
    phase, displayText, errorText, showAnswer, answerSum, typedAnswer,
    validationSummary, hasValidated, sessionId, numbers, answerMode,
    autoRepeatEnabled, autoRepeatCount, autoRepeatRemaining,
    autoRepeatSecondsLeft, digitsPerNumber,
    starts,          \* the start() calls in flight
    stopsPending,    \* number of stop() calls awaiting stopSession()
    submitsPending,  \* session ids of validateTypedAnswer() calls in flight
    acksPending,     \* session ids of acknowledgeComplete() calls in flight
    fsReqs,          \* setFullscreen(enabled) calls in flight
    winFs,           \* whether the native window is fullscreen
    sessions,        \* the sessions the backend has created, by id
    lastOp,          \* the handler of the controller that ran last, and
                     \* for some handlers the phase it found
    lastCmd          \* the backend command that handler issued, if any

ctl == <<phase, displayText, errorText, showAnswer, answerSum, typedAnswer,
         validationSummary, hasValidated, sessionId, numbers, answerMode,
         autoRepeatEnabled, autoRepeatCount, autoRepeatRemaining,
         autoRepeatSecondsLeft, digitsPerNumber>>

vars == <<phase, displayText, errorText, showAnswer, answerSum, typedAnswer,
          validationSummary, hasValidated, sessionId, numbers, answerMode,
          autoRepeatEnabled, autoRepeatCount, autoRepeatRemaining,
          autoRepeatSecondsLeft, digitsPerNumber,
          starts, stopsPending, submitsPending, acksPending, fsReqs, winFs,
          sessions, lastOp, lastCmd>>

(* ------------------------------ helpers -------------------------------- *)
RECURSIVE SumSeq(_)
SumSeq(s) == IF s = <<>> THEN 0 ELSE Head(s) + SumSeq(Tail(s))

\* Math.trunc on a number given in tenths
Trunc(t) == IF t >= 0 THEN t \div 10 ELSE -((-t) \div 10)

\* the numbers the backend generates for session s
SessionNumbers(s) == [k \in 1..NumbersPerSession |-> 10 * s + k]

\* the backend's clamp of the repeats it was sent
EffectiveRepeats(r) == IF r < 1 THEN 1 ELSE IF r > 20 THEN 20 ELSE r

\* a start() call at its first await: where it is, the loop counter of its
\* fullscreen poll, whether a query of the poll has reported true, whether a
\* stop() has completed since it began, the auto-repeat settings it sent and
\* the session id of the response it is about to receive
NewCall == [pc |-> "fsSet", i |-> 0, confirmed |-> FALSE,
            cancelled |-> FALSE, ar |-> FALSE, repeats |-> 0,
            rsid |-> NoSession]

\* what displayText() holds: nothing, a countdown value or a flashed number
Blank == [kind |-> "blank", value |-> 0]
CountdownText(v) == [kind |-> "countdown", value |-> v]
NumberText(v) == [kind |-> "number", value |-> v]

\* void setFullscreen(enabled): the call runs up to its first await
RequestFullscreen(enabled) ==
    fsReqs' = fsReqs \cup {[enabled |-> enabled, stage |-> "query"]}

\* the handlers whose outcome is recorded by name in lastOp; the others are
\* recorded as "other"
ObservedOps == {"FsQueryError", "FsExhausted", "StartReject", "StartDirect",
                "StopSettle", "StopSettleAgain", "AutoRepeatWaitingIgnored",
                "AutoRepeatTickIgnored", "DraftTimerFire"}

\* the handler op ran and issued the backend command cmd
Did(op, cmd) ==
    /\ lastOp' = [op |-> IF op \in ObservedOps THEN op ELSE "other",
                  from |-> ""]
    /\ lastCmd' = cmd

\* the same, for a handler whose effect depends on the phase it finds
DidFrom(op, cmd, from) ==
    /\ lastOp' = [op |-> op, from |-> from]
    /\ lastCmd' = cmd

Init ==
    /\ phase = "idle"
    /\ displayText = Blank
    /\ errorText = ""
    /\ showAnswer = FALSE
    /\ answerSum = 0
    /\ typedAnswer = NoText
    /\ validationSummary = NoText
    /\ hasValidated = FALSE
    /\ sessionId = NoSession
    /\ numbers = <<>>
    /\ answerMode = "reveal"
    /\ autoRepeatEnabled = FALSE
    /\ autoRepeatCount = 10 * InitialAutoRepeatCount
    /\ autoRepeatRemaining = 0
    /\ autoRepeatSecondsLeft = NoSeconds
    /\ digitsPerNumber = InitialDigitsPerNumber
    /\ starts = {}
    /\ stopsPending = 0
    /\ submitsPending = {}
    /\ acksPending = {}
    /\ fsReqs = {}
    /\ winFs = FALSE
    /\ sessions = <<>>
    /\ lastOp = [op |-> "init", from |-> ""]
    /\ lastCmd = "none"

(* ----------------------- start(): lines 397-445 ------------------------ *)
ErrFullscreen == "Error: Unable to enter fullscreen"
ErrStartRejected == "start_session rejected"

\* start() from its first line to the first await, which is the
\* win.setFullscreen(true) call of forceFullscreenBeforeStart
StartBody ==
    /\ Cardinality(starts) < MaxStartCalls
    /\ NewCall \notin starts
    /\ errorText' = ""
    /\ showAnswer' = FALSE
    /\ answerSum' = 0
    /\ typedAnswer' = NoText
    /\ validationSummary' = NoText
    /\ hasValidated' = FALSE
    /\ autoRepeatSecondsLeft' = NoSeconds
    /\ sessionId' = NoSession
    /\ numbers' = <<>>
    /\ phase' = "starting"
    /\ displayText' = Blank
    /\ autoRepeatRemaining' =
          (IF autoRepeatEnabled THEN Trunc(autoRepeatCount) ELSE 0)
    /\ starts' = starts \cup {NewCall}
    /\ UNCHANGED <<answerMode, autoRepeatEnabled, autoRepeatCount,
                   digitsPerNumber, stopsPending, submitsPending, acksPending,
                   fsReqs, winFs, sessions>>

\* the Start button, which is rendered on the idle panel only
StartCall ==
    /\ phase = "idle"
    /\ StartBody
    /\ Did("StartCall", "none")

\* start() called by anything but the Start button, in a phase other than idle
StartDirect ==
    /\ phase # "idle"
    /\ StartBody
    /\ DidFrom("StartDirect", "none", phase)

\* the catch block of start() without its setPhase("idle")
StartCatch_KeepPhase(c, msg) ==
    /\ phase' = phase
    /\ RequestFullscreen(FALSE)
    /\ errorText' = msg
    /\ starts' = starts \ {c}
    /\ UNCHANGED <<displayText, showAnswer, answerSum, typedAnswer,
                   validationSummary, hasValidated, sessionId, numbers,
                   answerMode, autoRepeatEnabled, autoRepeatCount,
                   autoRepeatRemaining, autoRepeatSecondsLeft, digitsPerNumber,
                   stopsPending, submitsPending, acksPending, sessions>>

\* the catch block of start()
StartCatch(c, msg) ==
    /\ phase' = "idle"
    /\ RequestFullscreen(FALSE)
    /\ errorText' = msg
    /\ starts' = starts \ {c}
    /\ UNCHANGED <<displayText, showAnswer, answerSum, typedAnswer,
                   validationSummary, hasValidated, sessionId, numbers,
                   answerMode, autoRepeatEnabled, autoRepeatCount,
                   autoRepeatRemaining, autoRepeatSecondsLeft, digitsPerNumber,
                   stopsPending, submitsPending, acksPending, sessions>>

\* forceFullscreenBeforeStart: win.setFullscreen(true) settles; the window
\* manager applied it, or refused it (the call throws and the throw is
\* swallowed), or accepted it without applying it yet.  The loop then issues
\* its first query.
FsSetSettle(c) ==
    /\ c.pc = "fsSet"
    /\ \E outcome \in {"applied", "refused", "deferred"} :
          winFs' = (IF outcome = "applied" THEN TRUE ELSE winFs)
    /\ starts' = (starts \ {c}) \cup {[c EXCEPT !.pc = "fsQuery", !.i = 0]}
    /\ UNCHANGED <<lastOp, lastCmd>>
    /\ UNCHANGED <<ctl, stopsPending, submitsPending, acksPending, fsReqs,
                   sessions>>

\* forceFullscreenBeforeStart: win.isFullscreen() reports true; the function
\* returns and start() issues startSession with the auto-repeat settings
\* read at this moment
FsQueryTrue(c) ==
    /\ c.pc = "fsQuery"
    /\ winFs
    /\ starts' = (starts \ {c}) \cup
                    {[c EXCEPT !.pc = "cmd", !.i = 0, !.confirmed = TRUE,
                               !.ar = autoRepeatEnabled,
                               !.repeats = Trunc(autoRepeatCount)]}
    /\ Did("FsQueryTrue", "start_session")
    /\ UNCHANGED <<ctl, stopsPending, submitsPending, acksPending, fsReqs,
                   winFs, sessions>>

\* a poll whose catch does not break: after a query that throws the loop
\* goes on to the next query as long as attempts are left
FsQueryError_KeepsPolling(c) ==
    /\ c.pc = "fsQuery"
    /\ IF c.i + 1 < MaxFullscreenAttempts
          THEN /\ starts' = (starts \ {c}) \cup {[c EXCEPT !.i = c.i + 1]}
               /\ UNCHANGED <<lastOp, lastCmd>>
               /\ UNCHANGED <<ctl, stopsPending, submitsPending, acksPending,
                              fsReqs, winFs, sessions>>
          ELSE /\ StartCatch(c, ErrFullscreen)
               /\ Did("FsQueryError", "none")
               /\ UNCHANGED winFs

\* forceFullscreenBeforeStart: win.isFullscreen() throws; the loop breaks,
\* the function throws and start() runs its catch block
FsQueryError(c) ==
    /\ c.pc = "fsQuery"
    /\ StartCatch(c, ErrFullscreen)
    /\ Did("FsQueryError", "none")
    /\ UNCHANGED winFs

\* a poll whose loop runs for (let i = 0; i <= 30; i += 1): one query more
FsQueryFalse_OneMore(c) ==
    /\ c.pc = "fsQuery"
    /\ ~winFs
    /\ IF c.i + 1 <= MaxFullscreenAttempts
          THEN /\ starts' = (starts \ {c}) \cup {[c EXCEPT !.i = c.i + 1]}
               /\ UNCHANGED <<lastOp, lastCmd>>
               /\ UNCHANGED <<ctl, stopsPending, submitsPending, acksPending,
                              fsReqs, winFs, sessions>>
          ELSE /\ StartCatch(c, ErrFullscreen)
               /\ Did("FsExhausted", "none")
               /\ UNCHANGED winFs

\* forceFullscreenBeforeStart: win.isFullscreen() reports false; the loop
\* awaits its 25 ms timer, i += 1, and either issues the next query or is
\* exhausted, in which case the function throws
FsQueryFalse(c) ==
    /\ c.pc = "fsQuery"
    /\ ~winFs
    /\ IF c.i + 1 < MaxFullscreenAttempts
          THEN /\ starts' = (starts \ {c}) \cup {[c EXCEPT !.i = c.i + 1]}
               /\ UNCHANGED <<lastOp, lastCmd>>
               /\ UNCHANGED <<ctl, stopsPending, submitsPending, acksPending,
                              fsReqs, winFs, sessions>>
          ELSE /\ StartCatch(c, ErrFullscreen)
               /\ Did("FsExhausted", "none")
               /\ UNCHANGED winFs

\* the backend creates a session for a start_session command; the session
\* remembers whether the call that sent the command had confirmed fullscreen
BackendAccept(c) ==
    /\ c.pc = "cmd"
    /\ Len(sessions) < MaxSessions
    /\ sessions' = Append(sessions, [origin |-> "start",
                                     confirmed |-> c.confirmed, ar |-> c.ar])
    /\ starts' = (starts \ {c}) \cup
                    {[c EXCEPT !.pc = "resp", !.rsid = Len(sessions) + 1]}
    /\ UNCHANGED <<lastOp, lastCmd>>
    /\ UNCHANGED <<ctl, stopsPending, submitsPending, acksPending, fsReqs,
                   winFs>>

\* the backend rejects a start_session command
BackendReject(c) ==
    /\ c.pc = "cmd"
    /\ starts' = (starts \ {c}) \cup {[c EXCEPT !.pc = "rej"]}
    /\ UNCHANGED <<lastOp, lastCmd>>
    /\ UNCHANGED <<ctl, stopsPending, submitsPending, acksPending, fsReqs,
                   winFs, sessions>>

\* applyStartSessionResponse: lines 383-395; the effective configuration of
\* the response is whatever the backend made of the configuration it was sent
applyStartSessionResponse(c) ==
    /\ sessionId' = c.rsid
    /\ \E d \in DigitsValues : digitsPerNumber' = d
    /\ autoRepeatCount' =
          (IF c.ar THEN 10 * EffectiveRepeats(c.repeats) ELSE autoRepeatCount)

\* start(): the startSession promise resolves
StartResolve(c) ==
    /\ c.pc = "resp"
    /\ applyStartSessionResponse(c)
    /\ starts' = starts \ {c}
    /\ Did("StartResolve", "none")
    /\ UNCHANGED <<phase, displayText, errorText, showAnswer, answerSum,
                   typedAnswer, validationSummary, hasValidated, numbers,
                   answerMode, autoRepeatEnabled, autoRepeatRemaining,
                   autoRepeatSecondsLeft, stopsPending, submitsPending,
                   acksPending, fsReqs, winFs, sessions>>

\* start(): the startSession promise rejects
StartReject(c) ==
    /\ c.pc = "rej"
    /\ StartCatch(c, ErrStartRejected)
    /\ Did("StartReject", "none")
    /\ UNCHANGED winFs

(* ------------------------ stop(): lines 447-466 ------------------------ *)
\* the finally block of stop() without its setNumbers([])
StopReset_KeepNumbers ==
    /\ phase' = "idle"
    /\ displayText' = Blank
    /\ showAnswer' = FALSE
    /\ answerSum' = 0
    /\ typedAnswer' = NoText
    /\ validationSummary' = NoText
    /\ hasValidated' = FALSE
    /\ autoRepeatRemaining' = 0
    /\ autoRepeatSecondsLeft' = NoSeconds
    /\ sessionId' = NoSession
    /\ numbers' = numbers
    /\ RequestFullscreen(FALSE)

\* the finally block of stop(), which is also what goHome() assigns
StopReset ==
    /\ phase' = "idle"
    /\ displayText' = Blank
    /\ showAnswer' = FALSE
    /\ answerSum' = 0
    /\ typedAnswer' = NoText
    /\ validationSummary' = NoText
    /\ hasValidated' = FALSE
    /\ autoRepeatRemaining' = 0
    /\ autoRepeatSecondsLeft' = NoSeconds
    /\ sessionId' = NoSession
    /\ numbers' = <<>>
    /\ RequestFullscreen(FALSE)

\* stop() up to its await: Escape while starting, counting down or flashing
\* (lines 363-367), or the Home button of the complete screen
StopCall ==
    /\ phase \in {"starting", "countdown", "flashing", "complete"}
    /\ stopsPending < MaxStops
    /\ stopsPending' = stopsPending + 1
    /\ Did("StopCall", "stop_session")
    /\ UNCHANGED <<ctl, starts, submitsPending, acksPending, fsReqs, winFs,
                   sessions>>

\* a stop() whose reset follows the await instead of standing in a finally
\* block: a rejected stopSession() leaves the controller as it was
StopSettle_ResetOnSuccess ==
    /\ stopsPending > 0
    /\ stopsPending' = stopsPending - 1
    /\ starts' = {[c EXCEPT !.cancelled = TRUE] : c \in starts}
    /\ \/ /\ StopReset
          /\ UNCHANGED <<errorText, answerMode, autoRepeatEnabled,
                         autoRepeatCount, digitsPerNumber>>
       \/ UNCHANGED <<ctl, fsReqs>>
    /\ IF lastOp.op \in {"StopSettle", "StopSettleAgain"}
          THEN DidFrom("StopSettleAgain", "none", lastOp.from)
          ELSE DidFrom("StopSettle", "none", phase)
    /\ UNCHANGED <<submitsPending, acksPending, winFs, sessions>>

\* stop(): stopSession() settles, resolved or rejected, and the finally
\* block runs; every start() still in flight has now been cancelled
StopSettle ==
    /\ stopsPending > 0
    /\ stopsPending' = stopsPending - 1
    /\ StopReset
    /\ starts' = {[c EXCEPT !.cancelled = TRUE] : c \in starts}
    /\ IF lastOp.op \in {"StopSettle", "StopSettleAgain"}
          THEN DidFrom("StopSettleAgain", "none", lastOp.from)
          ELSE DidFrom("StopSettle", "none", phase)
    /\ UNCHANGED <<errorText, answerMode, autoRepeatEnabled, autoRepeatCount,
                   digitsPerNumber, submitsPending, acksPending, winFs,
                   sessions>>

(* -------------------- setFullscreen(): lines 41-51 --------------------- *)
\* win.isFullscreen() settles: it throws, or it reports the window state and
\* the call either ends or goes on to win.setFullscreen(enabled)
FsReqQuery(r) ==
    /\ r \in fsReqs
    /\ r.stage = "query"
    /\ \E outcome \in {"reported", "threw"} :
          fsReqs' = IF outcome = "reported" /\ winFs # r.enabled
                       THEN (fsReqs \ {r}) \cup {[r EXCEPT !.stage = "set"]}
                       ELSE fsReqs \ {r}
    /\ UNCHANGED <<lastOp, lastCmd>>
    /\ UNCHANGED <<ctl, starts, stopsPending, submitsPending, acksPending,
                   winFs, sessions>>

\* win.setFullscreen(enabled) settles: applied, or refused by the platform
FsReqSet(r) ==
    /\ r \in fsReqs
    /\ r.stage = "set"
    /\ \E outcome \in {"applied", "refused"} :
          winFs' = (IF outcome = "applied" THEN r.enabled ELSE winFs)
    /\ fsReqs' = fsReqs \ {r}
    /\ UNCHANGED <<lastOp, lastCmd>>
    /\ UNCHANGED <<ctl, starts, stopsPending, submitsPending, acksPending,
                   sessions>>

(* ------------------ event handlers: lines 308-361 ---------------------- *)
SessionIds == 1..Len(sessions)

\* resetForIncomingSessionIfComplete without its early return
resetForIncomingSession_AnyPhase ==
    /\ showAnswer' = FALSE
    /\ answerSum' = 0
    /\ typedAnswer' = NoText
    /\ validationSummary' = NoText
    /\ hasValidated' = FALSE
    /\ autoRepeatSecondsLeft' = NoSeconds

\* resetForIncomingSessionIfComplete: lines 213-223
resetForIncomingSessionIfComplete ==
    IF phase # "complete"
       THEN UNCHANGED <<showAnswer, answerSum, typedAnswer, validationSummary,
                        hasValidated, autoRepeatSecondsLeft>>
       ELSE /\ showAnswer' = FALSE
            /\ answerSum' = 0
            /\ typedAnswer' = NoText
            /\ validationSummary' = NoText
            /\ hasValidated' = FALSE
            /\ autoRepeatSecondsLeft' = NoSeconds

\* applyAutoRepeatWaiting: lines 241-245
applyAutoRepeatWaiting(remaining) ==
    /\ autoRepeatRemaining' = remaining
    /\ autoRepeatSecondsLeft' = NoSeconds

\* onCountdownTick handler
CountdownTick ==
    /\ SessionIds # {}
    /\ \E v \in {3} :
          /\ resetForIncomingSessionIfComplete
          /\ phase' = "countdown"
          /\ displayText' = CountdownText(v)
          /\ RequestFullscreen(TRUE)
    /\ Did("CountdownTick", "none")
    /\ UNCHANGED <<errorText, sessionId, numbers, answerMode,
                   autoRepeatEnabled, autoRepeatCount, autoRepeatRemaining,
                   digitsPerNumber, starts, stopsPending, submitsPending,
                   acksPending, winFs, sessions>>

\* onShowNumber handler
ShowNumber ==
    /\ \E s \in SessionIds, k \in 1..NumbersPerSession :
          /\ resetForIncomingSessionIfComplete
          /\ sessionId' = s
          /\ phase' = "flashing"
          /\ displayText' = NumberText(SessionNumbers(s)[k])
          /\ RequestFullscreen(TRUE)
    /\ Did("ShowNumber", "none")
    /\ UNCHANGED <<errorText, numbers, answerMode, autoRepeatEnabled,
                   autoRepeatCount, autoRepeatRemaining, digitsPerNumber,
                   starts, stopsPending, submitsPending, acksPending, winFs,
                   sessions>>

\* an onClearScreen that is not run while a start() call is suspended
ClearScreen_AfterStart ==
    /\ SessionIds # {}
    /\ starts = {}
    /\ displayText' = Blank
    /\ Did("ClearScreen", "none")
    /\ UNCHANGED <<phase, errorText, showAnswer, answerSum, typedAnswer,
                   validationSummary, hasValidated, sessionId, numbers,
                   answerMode, autoRepeatEnabled, autoRepeatCount,
                   autoRepeatRemaining, autoRepeatSecondsLeft, digitsPerNumber,
                   starts, stopsPending, submitsPending, acksPending, fsReqs,
                   winFs, sessions>>

\* an onClearScreen that also forgets the session the cleared number was of
ClearScreen_DropsSession ==
    /\ SessionIds # {}
    /\ displayText' = Blank
    /\ sessionId' = NoSession
    /\ Did("ClearScreen", "none")
    /\ UNCHANGED <<phase, errorText, showAnswer, answerSum, typedAnswer,
                   validationSummary, hasValidated, numbers,
                   answerMode, autoRepeatEnabled, autoRepeatCount,
                   autoRepeatRemaining, autoRepeatSecondsLeft, digitsPerNumber,
                   starts, stopsPending, submitsPending, acksPending, fsReqs,
                   winFs, sessions>>

\* onClearScreen handler
ClearScreen ==
    /\ SessionIds # {}
    /\ displayText' = Blank
    /\ Did("ClearScreen", "none")
    /\ UNCHANGED <<phase, errorText, showAnswer, answerSum, typedAnswer,
                   validationSummary, hasValidated, sessionId, numbers,
                   answerMode, autoRepeatEnabled, autoRepeatCount,
                   autoRepeatRemaining, autoRepeatSecondsLeft, digitsPerNumber,
                   starts, stopsPending, submitsPending, acksPending, fsReqs,
                   winFs, sessions>>

\* onAutoRepeatWaiting handler
AutoRepeatWaiting ==
    /\ SessionIds # {}
    /\ \E remaining \in 0..MaxRemaining :
          IF ~autoRepeatEnabled
             THEN UNCHANGED <<autoRepeatRemaining, autoRepeatSecondsLeft>>
             ELSE applyAutoRepeatWaiting(remaining)
    /\ Did(IF autoRepeatEnabled THEN "AutoRepeatWaiting"
                                ELSE "AutoRepeatWaitingIgnored", "none")
    /\ UNCHANGED <<phase, displayText, errorText, showAnswer, answerSum,
                   typedAnswer, validationSummary, hasValidated, sessionId,
                   numbers, answerMode, autoRepeatEnabled, autoRepeatCount,
                   digitsPerNumber, starts, stopsPending, submitsPending,
                   acksPending, fsReqs, winFs, sessions>>

\* onAutoRepeatTick without its if (!autoRepeatEnabled()) return
AutoRepeatTick_NoGuard ==
    /\ SessionIds # {}
    /\ \E seconds \in 0..MaxSeconds, remaining \in 0..MaxRemaining :
          /\ autoRepeatRemaining' = remaining
          /\ autoRepeatSecondsLeft' = seconds
    /\ Did(IF autoRepeatEnabled THEN "AutoRepeatTick"
                                ELSE "AutoRepeatTickIgnored", "none")
    /\ UNCHANGED <<phase, displayText, errorText, showAnswer, answerSum,
                   typedAnswer, validationSummary, hasValidated, sessionId,
                   numbers, answerMode, autoRepeatEnabled, autoRepeatCount,
                   digitsPerNumber, starts, stopsPending, submitsPending,
                   acksPending, fsReqs, winFs, sessions>>

\* an onAutoRepeatTick that begins the next round by itself when the
\* countdown has run down, as the local timer of the first draft did
AutoRepeatTick_LocalRestart ==
    /\ SessionIds # {}
    /\ \E seconds \in 0..MaxSeconds, remaining \in 0..MaxRemaining :
          IF ~autoRepeatEnabled
             THEN /\ UNCHANGED <<autoRepeatRemaining, autoRepeatSecondsLeft,
                                 phase>>
                  /\ Did("AutoRepeatTickIgnored", "none")
             ELSE /\ autoRepeatRemaining' = remaining
                  /\ autoRepeatSecondsLeft' = seconds
                  /\ IF seconds = 0 /\ phase = "complete"
                        THEN /\ phase' = "starting"
                             /\ Did("AutoRepeatTick", "start_session")
                        ELSE /\ UNCHANGED phase
                             /\ Did("AutoRepeatTick", "none")
    /\ UNCHANGED <<displayText, errorText, showAnswer, answerSum,
                   typedAnswer, validationSummary, hasValidated, sessionId,
                   numbers, answerMode, autoRepeatEnabled, autoRepeatCount,
                   digitsPerNumber, starts, stopsPending, submitsPending,
                   acksPending, fsReqs, winFs, sessions>>

\* onAutoRepeatTick handler
AutoRepeatTick ==
    /\ SessionIds # {}
    /\ \E seconds \in 0..MaxSeconds, remaining \in 0..MaxRemaining :
          IF ~autoRepeatEnabled
             THEN UNCHANGED <<autoRepeatRemaining, autoRepeatSecondsLeft>>
             ELSE /\ autoRepeatRemaining' = remaining
                  /\ autoRepeatSecondsLeft' = seconds
    /\ Did(IF autoRepeatEnabled THEN "AutoRepeatTick"
                                ELSE "AutoRepeatTickIgnored", "none")
    /\ UNCHANGED <<phase, displayText, errorText, showAnswer, answerSum,
                   typedAnswer, validationSummary, hasValidated, sessionId,
                   numbers, answerMode, autoRepeatEnabled, autoRepeatCount,
                   digitsPerNumber, starts, stopsPending, submitsPending,
                   acksPending, fsReqs, winFs, sessions>>

\* onSessionComplete keeping numbers and a sum that are already there
SessionComplete_KeepLocal ==
    /\ \E s \in SessionIds :
          /\ phase' = "complete"
          /\ displayText' = Blank
          /\ showAnswer' = FALSE
          /\ numbers' = IF numbers = <<>> THEN SessionNumbers(s) ELSE numbers
          /\ answerSum' = SumSeq(numbers')
          /\ typedAnswer' = NoText
          /\ validationSummary' = NoText
          /\ hasValidated' = FALSE
          /\ autoRepeatSecondsLeft' = NoSeconds
          /\ sessionId' = s
          /\ RequestFullscreen(FALSE)
    /\ Did("SessionComplete", "none")
    /\ UNCHANGED <<errorText, answerMode, autoRepeatEnabled, autoRepeatCount,
                   autoRepeatRemaining, digitsPerNumber, starts, stopsPending,
                   submitsPending, acksPending, winFs, sessions>>

\* onSessionComplete without its setHasValidated(false) and
\* setAutoRepeatSecondsLeft(null)
SessionComplete_KeepsValidated ==
    /\ \E s \in SessionIds :
          /\ phase' = "complete"
          /\ displayText' = Blank
          /\ showAnswer' = FALSE
          /\ numbers' = SessionNumbers(s)
          /\ answerSum' = SumSeq(SessionNumbers(s))
          /\ typedAnswer' = NoText
          /\ validationSummary' = NoText
          /\ sessionId' = s
          /\ RequestFullscreen(FALSE)
    /\ Did("SessionComplete", "none")
    /\ UNCHANGED <<errorText, hasValidated, answerMode, autoRepeatEnabled,
                   autoRepeatCount, autoRepeatRemaining,
                   autoRepeatSecondsLeft, digitsPerNumber, starts,
                   stopsPending, submitsPending, acksPending, winFs,
                   sessions>>

\* onSessionComplete handler
SessionComplete ==
    /\ \E s \in SessionIds :
          /\ phase' = "complete"
          /\ displayText' = Blank
          /\ showAnswer' = FALSE
          /\ numbers' = SessionNumbers(s)
          /\ answerSum' = SumSeq(SessionNumbers(s))
          /\ typedAnswer' = NoText
          /\ validationSummary' = NoText
          /\ hasValidated' = FALSE
          /\ autoRepeatSecondsLeft' = NoSeconds
          /\ sessionId' = s
          /\ RequestFullscreen(FALSE)
    /\ Did("SessionComplete", "none")
    /\ UNCHANGED <<errorText, answerMode, autoRepeatEnabled, autoRepeatCount,
                   autoRepeatRemaining, digitsPerNumber, starts, stopsPending,
                   submitsPending, acksPending, winFs, sessions>>

\* the backend begins the next session of an auto-repeat run by itself
BackendRollover ==
    /\ \E s \in SessionIds : sessions[s].ar
    /\ Len(sessions) < MaxSessions
    /\ sessions' = Append(sessions, [origin |-> "repeat", confirmed |-> FALSE,
                                     ar |-> TRUE])
    /\ UNCHANGED <<lastOp, lastCmd>>
    /\ UNCHANGED <<ctl, starts, stopsPending, submitsPending, acksPending,
                   fsReqs, winFs>>

(* ------------- answer submission: lines 253-291, 987-999 --------------- *)
\* resp.auto_repeat_waiting === null
NoWaiting == -1
\* the auto_repeat_waiting a response for session s may carry: null, or for a
\* session of an auto-repeat run the remaining count
WaitingPayloads(s) ==
    {NoWaiting} \cup (IF sessions[s].ar THEN 0..MaxRemaining ELSE {})

\* a line of the validation summary: what it says and the number it shows
Line(kind, value) == [kind |-> kind, value |-> value]

NoSessionText == <<Line("No active session id to validate.", 0)>>
ErrSubmitRejected == <<Line("Error: submit_answer_text rejected", 0)>>

\* the validation results the backend may answer for session s: the expected
\* sum of the session, whether the provided answer equals it, and by how
\* much it differs
ValidationResults(s) ==
    {[expected_sum |-> SumSeq(SessionNumbers(s)), correct |-> c, delta |-> d] :
        <<c, d>> \in {<<TRUE, 0>>, <<FALSE, -1>>, <<FALSE, 1>>}}

\* the lines applySubmitAnswerResponse joins into the validation summary
SummaryLines(validation) ==
    <<Line(IF validation.correct THEN "Correct" ELSE "Incorrect", 0),
      Line("Expected answer", validation.expected_sum)>>
    \o (IF ~validation.correct
           THEN <<Line("Difference", validation.delta)>>
           ELSE <<>>)

\* validateTypedAnswer calling setHasValidated(true) before it looks at the
\* session id
ValidateBody_MarksValidated ==
    /\ hasValidated' = TRUE
    /\ IF sessionId = NoSession
          THEN /\ validationSummary' = NoSessionText
               /\ Did("ValidateNoSession", "none")
               /\ UNCHANGED submitsPending
          ELSE /\ submitsPending' = submitsPending \cup {sessionId}
               /\ Did("ValidateCall", "submit_answer_text")
               /\ UNCHANGED validationSummary
    /\ UNCHANGED <<phase, displayText, errorText, showAnswer, answerSum,
                   typedAnswer, sessionId, numbers, answerMode,
                   autoRepeatEnabled, autoRepeatCount, autoRepeatRemaining,
                   autoRepeatSecondsLeft, digitsPerNumber, starts,
                   stopsPending, acksPending, fsReqs, winFs, sessions>>

\* validateTypedAnswer up to its await
ValidateBody ==
    /\ IF sessionId = NoSession
          THEN /\ validationSummary' = NoSessionText
               /\ Did("ValidateNoSession", "none")
               /\ UNCHANGED submitsPending
          ELSE /\ submitsPending' = submitsPending \cup {sessionId}
               /\ Did("ValidateCall", "submit_answer_text")
               /\ UNCHANGED validationSummary
    /\ UNCHANGED <<phase, displayText, errorText, showAnswer, answerSum,
                   typedAnswer, hasValidated, sessionId, numbers, answerMode,
                   autoRepeatEnabled, autoRepeatCount, autoRepeatRemaining,
                   autoRepeatSecondsLeft, digitsPerNumber, starts,
                   stopsPending, acksPending, fsReqs, winFs, sessions>>

\* the Validate button, or Enter in the answer input, of the complete screen
\* in type mode
ValidateCall ==
    /\ phase = "complete"
    /\ answerMode = "type"
    /\ ValidateBody

\* validateTypedAnswer called in any other state
ValidateDirect ==
    /\ ~(phase = "complete" /\ answerMode = "type")
    /\ ValidateBody

\* validateTypedAnswer: submitAnswerText resolves; setHasValidated(true) and
\* applySubmitAnswerResponse, whose response may carry a waiting payload
SubmitResolve(s) ==
    /\ s \in submitsPending
    /\ submitsPending' = submitsPending \ {s}
    /\ hasValidated' = TRUE
    /\ \E validation \in ValidationResults(s) :
          validationSummary' = SummaryLines(validation)
    /\ \E waiting \in WaitingPayloads(s) :
          IF waiting = NoWaiting
             THEN UNCHANGED <<autoRepeatRemaining, autoRepeatSecondsLeft>>
             ELSE applyAutoRepeatWaiting(waiting)
    /\ Did("SubmitResolve", "none")
    /\ UNCHANGED <<phase, displayText, errorText, showAnswer, answerSum,
                   typedAnswer, sessionId, numbers, answerMode,
                   autoRepeatEnabled, autoRepeatCount, digitsPerNumber,
                   starts, stopsPending, acksPending, fsReqs, winFs, sessions>>

\* validateTypedAnswer with setHasValidated(true) ahead of the try block, so
\* that a rejection leaves the flag set
SubmitReject_MarksValidated(s) ==
    /\ s \in submitsPending
    /\ submitsPending' = submitsPending \ {s}
    /\ hasValidated' = TRUE
    /\ validationSummary' = ErrSubmitRejected
    /\ Did("SubmitReject", "none")
    /\ UNCHANGED <<phase, displayText, errorText, showAnswer, answerSum,
                   typedAnswer, sessionId, numbers, answerMode,
                   autoRepeatEnabled, autoRepeatCount, autoRepeatRemaining,
                   autoRepeatSecondsLeft, digitsPerNumber, starts,
                   stopsPending, acksPending, fsReqs, winFs, sessions>>

\* validateTypedAnswer: submitAnswerText rejects
SubmitReject(s) ==
    /\ s \in submitsPending
    /\ submitsPending' = submitsPending \ {s}
    /\ hasValidated' = FALSE
    /\ validationSummary' = ErrSubmitRejected
    /\ Did("SubmitReject", "none")
    /\ UNCHANGED <<phase, displayText, errorText, showAnswer, answerSum,
                   typedAnswer, sessionId, numbers, answerMode,
                   autoRepeatEnabled, autoRepeatCount, autoRepeatRemaining,
                   autoRepeatSecondsLeft, digitsPerNumber, starts,
                   stopsPending, acksPending, fsReqs, winFs, sessions>>

\* the Show answer button of the complete screen in reveal mode, up to its
\* await
ShowAnswerClick ==
    /\ phase = "complete"
    /\ answerMode = "reveal"
    /\ ~showAnswer
    /\ hasValidated' = TRUE
    /\ showAnswer' = TRUE
    /\ IF sessionId # NoSession
          THEN /\ acksPending' = acksPending \cup {sessionId}
               /\ Did("ShowAnswerClick", "acknowledge_complete")
          ELSE /\ UNCHANGED acksPending
               /\ Did("ShowAnswerClick", "none")
    /\ UNCHANGED <<phase, displayText, errorText, answerSum, typedAnswer,
                   validationSummary, sessionId, numbers, answerMode,
                   autoRepeatEnabled, autoRepeatCount, autoRepeatRemaining,
                   autoRepeatSecondsLeft, digitsPerNumber, starts,
                   stopsPending, submitsPending, fsReqs, winFs, sessions>>

\* Show answer: acknowledgeComplete settles; a waiting payload is applied, a
\* null result or a rejection is ignored
AckSettle(s) ==
    /\ s \in acksPending
    /\ acksPending' = acksPending \ {s}
    /\ \E waiting \in WaitingPayloads(s) :
          IF waiting = NoWaiting
             THEN UNCHANGED <<autoRepeatRemaining, autoRepeatSecondsLeft>>
             ELSE applyAutoRepeatWaiting(waiting)
    /\ Did("AckSettle", "none")
    /\ UNCHANGED <<phase, displayText, errorText, showAnswer, answerSum,
                   typedAnswer, validationSummary, hasValidated, sessionId,
                   numbers, answerMode, autoRepeatEnabled, autoRepeatCount,
                   digitsPerNumber, starts, stopsPending, submitsPending,
                   fsReqs, winFs, sessions>>

\* the Hide button of the complete screen in reveal mode
HideAnswerClick ==
    /\ phase = "complete"
    /\ answerMode = "reveal"
    /\ showAnswer
    /\ showAnswer' = FALSE
    /\ Did("HideAnswerClick", "none")
    /\ UNCHANGED <<phase, displayText, errorText, answerSum, typedAnswer,
                   validationSummary, hasValidated, sessionId, numbers,
                   answerMode, autoRepeatEnabled, autoRepeatCount,
                   autoRepeatRemaining, autoRepeatSecondsLeft, digitsPerNumber,
                   starts, stopsPending, submitsPending, acksPending, fsReqs,
                   winFs, sessions>>

\* the answer input of the complete screen in type mode
TypeAnswer ==
    /\ phase = "complete"
    /\ answerMode = "type"
    /\ \E t \in AnswerInputs \ {typedAnswer} : typedAnswer' = t
    /\ Did("TypeAnswer", "none")
    /\ UNCHANGED <<phase, displayText, errorText, showAnswer, answerSum,
                   validationSummary, hasValidated, sessionId, numbers,
                   answerMode, autoRepeatEnabled, autoRepeatCount,
                   autoRepeatRemaining, autoRepeatSecondsLeft, digitsPerNumber,
                   starts, stopsPending, submitsPending, acksPending, fsReqs,
                   winFs, sessions>>

(* ---------------- settings of the idle panel: lines 509-640 ------------ *)
\* the auto-repeat Off radio
AutoRepeatOff ==
    /\ phase = "idle"
    /\ autoRepeatEnabled
    /\ autoRepeatEnabled' = FALSE
    /\ autoRepeatRemaining' = 0
    /\ autoRepeatSecondsLeft' = NoSeconds
    /\ Did("AutoRepeatOff", "cancel_auto_repeat")
    /\ UNCHANGED <<phase, displayText, errorText, showAnswer, answerSum,
                   typedAnswer, validationSummary, hasValidated, sessionId,
                   numbers, answerMode, autoRepeatCount, digitsPerNumber,
                   starts, stopsPending, submitsPending, acksPending, fsReqs,
                   winFs, sessions>>

\* the auto-repeat On radio
AutoRepeatOn ==
    /\ phase = "idle"
    /\ ~autoRepeatEnabled
    /\ autoRepeatEnabled' = TRUE
    /\ Did("AutoRepeatOn", "none")
    /\ UNCHANGED <<phase, displayText, errorText, showAnswer, answerSum,
                   typedAnswer, validationSummary, hasValidated, sessionId,
                   numbers, answerMode, autoRepeatCount, autoRepeatRemaining,
                   autoRepeatSecondsLeft, digitsPerNumber, starts,
                   stopsPending, submitsPending, acksPending, fsReqs, winFs,
                   sessions>>

\* the Repeats inputs, rendered while auto-repeat is on
SetAutoRepeatCount ==
    /\ phase = "idle"
    /\ autoRepeatEnabled
    /\ \E v \in RepeatInputs \ {autoRepeatCount} : autoRepeatCount' = v
    /\ Did("SetAutoRepeatCount", "none")
    /\ UNCHANGED <<phase, displayText, errorText, showAnswer, answerSum,
                   typedAnswer, validationSummary, hasValidated, sessionId,
                   numbers, answerMode, autoRepeatEnabled, autoRepeatRemaining,
                   autoRepeatSecondsLeft, digitsPerNumber, starts,
                   stopsPending, submitsPending, acksPending, fsReqs, winFs,
                   sessions>>

\* the answer mode radios
SetAnswerMode ==
    /\ phase = "idle"
    /\ \E m \in {"reveal", "type"} \ {answerMode} : answerMode' = m
    /\ Did("SetAnswerMode", "none")
    /\ UNCHANGED <<phase, displayText, errorText, showAnswer, answerSum,
                   typedAnswer, validationSummary, hasValidated, sessionId,
                   numbers, autoRepeatEnabled, autoRepeatCount,
                   autoRepeatRemaining, autoRepeatSecondsLeft, digitsPerNumber,
                   starts, stopsPending, submitsPending, acksPending, fsReqs,
                   winFs, sessions>>

(* --------------------------- specification ----------------------------- *)
StartStep ==
    \/ StartCall
    \/ \E c \in starts :
        \/ FsSetSettle(c)
        \/ FsQueryTrue(c)
        \/ FsQueryFalse(c)
        \/ FsQueryError(c)
        \/ StartResolve(c)
        \/ StartReject(c)

BackendAnswer == \E c \in starts : BackendAccept(c) \/ BackendReject(c)

BackendStep ==
    \/ BackendAnswer
    \/ BackendRollover

StopStep == StopCall \/ StopSettle

FullscreenStep == \E r \in fsReqs : FsReqQuery(r) \/ FsReqSet(r)

EventStep ==
    \/ CountdownTick
    \/ ShowNumber
    \/ ClearScreen
    \/ AutoRepeatWaiting
    \/ AutoRepeatTick
    \/ SessionComplete

AnswerStep ==
    \/ ValidateCall
    \/ \E s \in submitsPending : SubmitResolve(s) \/ SubmitReject(s)
    \/ ShowAnswerClick
    \/ \E s \in acksPending : AckSettle(s)
    \/ HideAnswerClick
    \/ TypeAnswer

SettingsStep ==
    \/ AutoRepeatOff
    \/ AutoRepeatOn
    \/ SetAutoRepeatCount
    \/ SetAnswerMode

\* The session life cycle: start, cancel, the backend's answers and the
\* events of a run.  The best-effort setFullscreen calls stay in flight
\* (FullscreenStep settles them) and the answer screen is left to AnswerSpec.
Next ==
    \/ StartStep
    \/ BackendStep
    \/ StopStep
    \/ CountdownTick
    \/ ShowNumber
    \/ ClearScreen
    \/ SessionComplete
    \/ AutoRepeatOn
    \/ AutoRepeatOff

Spec == Init /\ [][Next]_vars

\* The answer screen and the auto-repeat countdown of a run that start() has
\* begun: the states in which startSession has just resolved for the first
\* session, for either answer mode and either auto-repeat setting.
AnswerInit ==
    /\ phase = "starting"
    /\ displayText = Blank
    /\ errorText = ""
    /\ showAnswer = FALSE
    /\ answerSum = 0
    /\ typedAnswer = NoText
    /\ validationSummary = NoText
    /\ hasValidated = FALSE
    /\ sessionId = 1
    /\ numbers = <<>>
    /\ answerMode \in {"reveal", "type"}
    /\ autoRepeatEnabled \in BOOLEAN
    /\ autoRepeatCount = 10 * InitialAutoRepeatCount
    /\ autoRepeatRemaining =
          (IF autoRepeatEnabled THEN InitialAutoRepeatCount ELSE 0)
    /\ autoRepeatSecondsLeft = NoSeconds
    /\ digitsPerNumber = InitialDigitsPerNumber
    /\ starts = {}
    /\ stopsPending = 0
    /\ submitsPending = {}
    /\ acksPending = {}
    /\ fsReqs = {}
    /\ winFs = TRUE
    /\ sessions = <<[origin |-> "start", confirmed |-> TRUE,
                     ar |-> autoRepeatEnabled]>>
    /\ lastOp = [op |-> "other", from |-> ""]
    /\ lastCmd = "none"

AnswerNext ==
    \/ StopStep
    \/ BackendRollover
    \/ EventStep
    \/ AnswerStep

AnswerSpec == AnswerInit /\ [][AnswerNext]_vars

\* The answers of a round: the events that flash and complete a session,
\* cancel, and the typed or revealed answer with its backend calls; the
\* auto-repeat countdown events are left to RepeatSpec.
SubmitNext ==
    \/ StopStep
    \/ BackendRollover
    \/ CountdownTick
    \/ ShowNumber
    \/ ClearScreen
    \/ SessionComplete
    \/ AnswerStep

SubmitSpec == AnswerInit /\ [][SubmitNext]_vars

\* validateTypedAnswer as an operation of the controller, which may be called
\* in any state: with and without a session id
ValidateNext ==
    \/ StopStep
    \/ ShowNumber
    \/ SessionComplete
    \/ TypeAnswer
    \/ ValidateCall
    \/ ValidateDirect
    \/ \E s \in submitsPending : SubmitResolve(s) \/ SubmitReject(s)

ValidateSpec == AnswerInit /\ [][ValidateNext]_vars

\* The auto-repeat countdown: the events of a run, cancel, the auto-repeat
\* radios of the idle panel, and the revealed answer with its acknowledgment.
RepeatNext ==
    \/ StopStep
    \/ BackendRollover
    \/ EventStep
    \/ ShowAnswerClick
    \/ \E s \in acksPending : AckSettle(s)
    \/ HideAnswerClick
    \/ AutoRepeatOff
    \/ AutoRepeatOn

RepeatSpec == AnswerInit /\ [][RepeatNext]_vars

\* start() and cancel: the start() calls, the backend's answers to them,
\* stop(), and the show_number events of the sessions that exist
StartNext ==
    \/ StartStep
    \/ BackendAnswer
    \/ StopStep
    \/ ShowNumber

StartSpec == Init /\ [][StartNext]_vars

\* start() and cancel together with the show_number and clear_screen events
\* that may arrive while a start() call is suspended
StrayNext ==
    \/ StartNext
    \/ ClearScreen

StraySpec == Init /\ [][StrayNext]_vars

\* start() and cancel together with the auto-repeat settings of the idle
\* panel: the radios and the Repeats inputs
SettingsNext ==
    \/ StartStep
    \/ BackendAnswer
    \/ StopStep
    \/ AutoRepeatOn
    \/ AutoRepeatOff
    \/ SetAutoRepeatCount

SettingsSpec == Init /\ [][SettingsNext]_vars

\* The complete screen: session_complete events, also repeated ones, with
\* the typed or revealed answer and the auto-repeat countdown in between
CompleteNext ==
    \/ SessionComplete
    \/ AnswerStep
    \/ AutoRepeatWaiting
    \/ AutoRepeatTick

CompleteSpec == AnswerInit /\ [][CompleteNext]_vars

\* The fullscreen poll of start(): the calls of start(), one after the
\* other, the backend's answers, and the best-effort setFullscreen calls
\* that change the window under the poll; every native window call of the
\* poll settles in the end.
PollNext ==
    \/ StartStep
    \/ BackendAnswer
    \/ FullscreenStep

PollSpec ==
    /\ Init
    /\ [][PollNext]_vars
    /\ WF_vars(\E c \in starts : FsSetSettle(c))
    /\ WF_vars(\E c \in starts :
                  FsQueryTrue(c) \/ FsQueryFalse(c) \/ FsQueryError(c))

\* start() as an operation of the controller, which any caller may invoke in
\* any phase
ApiNext ==
    \/ StartNext
    \/ StartDirect

ApiSpec == Init /\ [][ApiNext]_vars

\* start(), stop(), the countdown and the end of a session, where every
\* stop_session command that was issued settles in the end
RecoverNext ==
    \/ StartStep
    \/ BackendAnswer
    \/ StopStep
    \/ CountdownTick
    \/ SessionComplete

RecoverSpec == Init /\ [][RecoverNext]_vars /\ WF_vars(StopSettle)

(* ------ local validation of the earlier drafts: part_000 lines 81-114 --- *)
\* the texts of at most MaxLen characters
Texts == UNION {[1..n -> Chars] : n \in 0..MaxLen}

DigitValue(c) ==
    CASE c = "0" -> 0 [] c = "1" -> 1 [] c = "2" -> 2 [] c = "3" -> 3
      [] c = "4" -> 4 [] c = "5" -> 5 [] c = "6" -> 6 [] c = "7" -> 7
      [] c = "8" -> 8 [] c = "9" -> 9

IsDigit(c) == c \in {"0", "1", "2", "3", "4", "5", "6", "7", "8", "9"}

\* String.prototype.trim, for texts whose only white space is the blank
RECURSIVE TrimLeft(_)
TrimLeft(t) ==
    IF t # <<>> /\ Head(t) = " " THEN TrimLeft(Tail(t)) ELSE t

RECURSIVE TrimRight(_)
TrimRight(t) ==
    IF t # <<>> /\ t[Len(t)] = " "
       THEN TrimRight(SubSeq(t, 1, Len(t) - 1))
       ELSE t

Trim(t) == TrimRight(TrimLeft(t))

\* replace(/,/g, "")
RemoveCommas(t) == SelectSeq(t, LAMBDA c : c # ",")

\* /^[+-]?\d+$/.test(t)
IsStrictInteger(t) ==
    LET digits == IF t # <<>> /\ Head(t) \in {"+", "-"} THEN Tail(t) ELSE t
    IN  /\ digits # <<>>
        /\ \A i \in DOMAIN digits : IsDigit(digits[i])

RECURSIVE DigitsValue(_)
DigitsValue(d) ==
    IF d = <<>> THEN 0
    ELSE 10 * DigitsValue(SubSeq(d, 1, Len(d) - 1)) + DigitValue(d[Len(d)])

\* Number.parseInt(t, 10) of a text that passed the test
ParseInt(t) ==
    IF Head(t) = "-" THEN -DigitsValue(Tail(t))
    ELSE IF Head(t) = "+" THEN DigitsValue(Tail(t))
    ELSE DigitsValue(t)

\* parseUserSum: null, or the number the text stands for
NoNumber == [ok |-> FALSE, value |-> 0]
parseUserSum(raw) ==
    LET cleaned == RemoveCommas(Trim(raw))
    IN  IF cleaned = <<>> THEN NoNumber
        ELSE IF ~IsStrictInteger(cleaned) THEN NoNumber
        ELSE [ok |-> TRUE, value |-> ParseInt(cleaned)]

InputErrorText == <<Line("Enter a single integer answer (e.g. 42 or -17).", 0)>>

\* the lines of part_000 with an answer above the expected sum taken as
\* correct
LocalLines_AtLeast(expected, provided) ==
    LET delta == provided - expected
        ok == delta >= 0
    IN  <<Line(IF ok THEN "Correct" ELSE "Incorrect", 0),
          Line("Expected answer", expected),
          Line("You entered", provided)>>
        \o (IF ~ok THEN <<Line("Difference", delta)>> ELSE <<>>)

\* the lines validateTypedAnswer of part_000 joins into the summary
LocalLines(expected, provided) ==
    LET delta == provided - expected
        ok == delta = 0
    IN  <<Line(IF ok THEN "Correct" ELSE "Incorrect", 0),
          Line("Expected answer", expected),
          Line("You entered", provided)>>
        \o (IF ~ok THEN <<Line("Difference", delta)>> ELSE <<>>)

\* validateTypedAnswer of part_000: the typed answer is parsed and compared
\* with answerSum() locally
LocalValidate ==
    /\ phase = "complete"
    /\ answerMode = "type"
    /\ LET provided == parseUserSum(typedAnswer)
       IN  IF ~provided.ok
              THEN /\ validationSummary' = InputErrorText
                   /\ UNCHANGED hasValidated
              ELSE /\ hasValidated' = TRUE
                   /\ validationSummary' = LocalLines(answerSum, provided.value)
    /\ Did("LocalValidate", "none")
    /\ UNCHANGED <<phase, displayText, errorText, showAnswer, answerSum,
                   typedAnswer, sessionId, numbers, answerMode,
                   autoRepeatEnabled, autoRepeatCount, autoRepeatRemaining,
                   autoRepeatSecondsLeft, digitsPerNumber, starts,
                   stopsPending, submitsPending, acksPending, fsReqs, winFs,
                   sessions>>

\* the complete screen in type mode, for every typed text and expected sum
LocalInit ==
    /\ phase = "complete"
    /\ displayText = Blank
    /\ errorText = ""
    /\ showAnswer = FALSE
    /\ answerSum \in ExpectedInputs
    /\ typedAnswer \in Texts
    /\ validationSummary = NoText
    /\ hasValidated = FALSE
    /\ sessionId = 1
    /\ numbers = <<answerSum>>
    /\ answerMode = "type"
    /\ autoRepeatEnabled = FALSE
    /\ autoRepeatCount = 10 * InitialAutoRepeatCount
    /\ autoRepeatRemaining = 0
    /\ autoRepeatSecondsLeft = NoSeconds
    /\ digitsPerNumber = InitialDigitsPerNumber
    /\ starts = {}
    /\ stopsPending = 0
    /\ submitsPending = {}
    /\ acksPending = {}
    /\ fsReqs = {}
    /\ winFs = FALSE
    /\ sessions = <<[origin |-> "start", confirmed |-> TRUE, ar |-> FALSE]>>
    /\ lastOp = [op |-> "other", from |-> ""]
    /\ lastCmd = "none"

LocalNext == LocalValidate

LocalSpec == LocalInit /\ [][LocalNext]_vars

(* --- the auto-repeat countdown timer of the middle draft: App.tsx 174-195 --- *)
\* In that draft a waiting payload stores its deadline, and an effect that
\* runs whenever the deadline changes shows the seconds up to it and keeps
\* them current with a 200 ms interval; a null deadline clears the interval
\* and the seconds.  Every other handler sets the deadline and the seconds
\* to null together, so the interval is running exactly when seconds-left
\* holds a number.
TimerRunning == autoRepeatSecondsLeft # NoSeconds

\* applyAutoRepeatWaiting of that draft, with the first run of the effect:
\* seconds is max(0, ceil((next_start_at_ms - now) / 1000))
applyAutoRepeatWaitingTimed(remaining, seconds) ==
    /\ autoRepeatRemaining' = remaining
    /\ autoRepeatSecondsLeft' = seconds

\* Show answer of that draft, lines 771-781: acknowledgeComplete settles
TimedAckSettle(s) ==
    /\ s \in acksPending
    /\ acksPending' = acksPending \ {s}
    /\ \E waiting \in WaitingPayloads(s), seconds \in 0..MaxSeconds :
          IF waiting = NoWaiting
             THEN UNCHANGED <<autoRepeatRemaining, autoRepeatSecondsLeft>>
             ELSE applyAutoRepeatWaitingTimed(waiting, seconds)
    /\ Did("TimedAckSettle", "none")
    /\ UNCHANGED <<phase, displayText, errorText, showAnswer, answerSum,
                   typedAnswer, validationSummary, hasValidated, sessionId,
                   numbers, answerMode, autoRepeatEnabled, autoRepeatCount,
                   digitsPerNumber, starts, stopsPending, submitsPending,
                   fsReqs, winFs, sessions>>

\* a callback of the interval, lines 186-190: time has passed
TimerUpdate ==
    /\ TimerRunning
    /\ \E seconds \in 0..autoRepeatSecondsLeft :
          autoRepeatSecondsLeft' = seconds
    /\ Did("TimerUpdate", "none")
    /\ UNCHANGED <<phase, displayText, errorText, showAnswer, answerSum,
                   typedAnswer, validationSummary, hasValidated, sessionId,
                   numbers, answerMode, autoRepeatEnabled, autoRepeatCount,
                   autoRepeatRemaining, digitsPerNumber, starts, stopsPending,
                   submitsPending, acksPending, fsReqs, winFs, sessions>>

\* a run of that draft: the events of the sessions, cancel, the revealed
\* answer with its acknowledgment, the auto-repeat radios and the timer;
\* the handlers it shares with the latest draft assign the same fields
TimedNext ==
    \/ StopStep
    \/ CountdownTick
    \/ ShowNumber
    \/ SessionComplete
    \/ ShowAnswerClick
    \/ \E s \in acksPending : TimedAckSettle(s)
    \/ TimerUpdate
    \/ AutoRepeatOff
    \/ AutoRepeatOn

TimedSpec == AnswerInit /\ [][TimedNext]_vars

(* ------- setFullscreen() calls in flight together: lines 41-51 ---------- *)
\* the runs of setFullscreen in which the platform answers every query and
\* applies every change: win.isFullscreen() reports the window state
FsReqReported(r) ==
    /\ FsReqQuery(r)
    /\ (winFs # r.enabled => fsReqs' # fsReqs \ {r})

\* win.setFullscreen(enabled) is applied
FsReqApplied(r) ==
    /\ FsReqSet(r)
    /\ winFs' = r.enabled

\* the handlers that call setFullscreen without awaiting it, and the native
\* calls of the requests in flight, in any order
WindowNext ==
    \/ ShowNumber
    \/ SessionComplete
    \/ StopStep
    \/ \E r \in fsReqs : FsReqReported(r) \/ FsReqApplied(r)

WindowSpec == AnswerInit /\ [][WindowNext]_vars

(* ------ the local auto-repeat timer of the first draft: part_000 -------- *)
\* In the first draft the front end begins the next round by itself.  An
\* effect that reads phase, autoRepeatEnabled, hasValidated and
\* autoRepeatRemaining runs again whenever one of them is set, after its
\* cleanup has cleared the timers of the run before; it arms a timer only
\* past its four early returns.  So a timer is pending exactly in the states
\* below.  The seconds display of the effect is left out.  The backend of
\* that draft has no session ids: sessionId stays null.
DraftArmed ==
    /\ phase = "complete"
    /\ autoRepeatEnabled
    /\ hasValidated
    /\ autoRepeatRemaining > 0

\* clampInt(raw, min, max) on a number given in tenths: lines 234-238
clampInt(raw, min, max) ==
    IF Trunc(raw) < min THEN min ELSE IF Trunc(raw) > max THEN max
                                      ELSE Trunc(raw)

\* start(opts) of that draft up to its first await, lines 261-304, but for
\* the auto-repeat budget
DraftStartFields ==
    /\ Cardinality(starts) < MaxStartCalls
    /\ NewCall \notin starts
    /\ errorText' = ""
    /\ showAnswer' = FALSE
    /\ answerSum' = 0
    /\ typedAnswer' = NoText
    /\ validationSummary' = NoText
    /\ hasValidated' = FALSE
    /\ numbers' = <<>>
    /\ phase' = "starting"
    /\ displayText' = Blank
    /\ starts' = starts \cup {NewCall}
    /\ UNCHANGED <<sessionId, answerMode, autoRepeatEnabled, autoRepeatCount,
                   autoRepeatSecondsLeft, digitsPerNumber, stopsPending,
                   submitsPending, acksPending, fsReqs, winFs, sessions>>

\* the Start button: start() with no options initialises the budget
DraftStart ==
    /\ phase = "idle"
    /\ DraftStartFields
    /\ autoRepeatRemaining' =
          (IF autoRepeatEnabled THEN clampInt(autoRepeatCount, 1, 20) ELSE 0)
    /\ Did("DraftStart", "none")

\* a timer callback that calls start({ autoRepeat: true }) without taking
\* one off the budget
DraftTimerFire_KeepsBudget ==
    /\ DraftArmed
    /\ DraftStartFields
    /\ UNCHANGED autoRepeatRemaining
    /\ Did("DraftTimerFire", "none")

\* the callback of the pending timer, lines 149-155: its three checks, one
\* off the budget, and start({ autoRepeat: true }), which leaves the budget
\* alone
DraftTimerFire ==
    /\ DraftArmed
    /\ phase = "complete" /\ autoRepeatEnabled /\ hasValidated
    /\ DraftStartFields
    /\ autoRepeatRemaining' =
          (IF autoRepeatRemaining - 1 > 0 THEN autoRepeatRemaining - 1 ELSE 0)
    /\ Did("DraftTimerFire", "none")

\* start() of that draft: invoke("start_session") resolves, line 306
DraftStartResolve(c) ==
    /\ c.pc = "resp"
    /\ starts' = starts \ {c}
    /\ Did("DraftStartResolve", "none")
    /\ UNCHANGED <<ctl, stopsPending, submitsPending, acksPending, fsReqs,
                   winFs, sessions>>

\* the session_complete handler of that draft: lines 191-202
DraftSessionComplete ==
    /\ SessionIds # {}
    /\ phase' = "complete"
    /\ displayText' = Blank
    /\ showAnswer' = FALSE
    /\ answerSum' = SumSeq(numbers)
    /\ typedAnswer' = NoText
    /\ validationSummary' = NoText
    /\ hasValidated' = FALSE
    /\ RequestFullscreen(FALSE)
    /\ Did("DraftSessionComplete", "none")
    /\ UNCHANGED <<errorText, sessionId, numbers, answerMode,
                   autoRepeatEnabled, autoRepeatCount, autoRepeatRemaining,
                   autoRepeatSecondsLeft, digitsPerNumber, starts,
                   stopsPending, submitsPending, acksPending, winFs, sessions>>

\* the Show answer button of that draft: lines 677-680
DraftShowAnswer ==
    /\ phase = "complete"
    /\ ~showAnswer
    /\ hasValidated' = TRUE
    /\ showAnswer' = TRUE
    /\ Did("DraftShowAnswer", "none")
    /\ UNCHANGED <<phase, displayText, errorText, answerSum, typedAnswer,
                   validationSummary, sessionId, numbers, answerMode,
                   autoRepeatEnabled, autoRepeatCount, autoRepeatRemaining,
                   autoRepeatSecondsLeft, digitsPerNumber, starts,
                   stopsPending, submitsPending, acksPending, fsReqs, winFs,
                   sessions>>

\* goHome of that draft, the Home button of the complete screen: 248-259
DraftGoHome ==
    /\ phase = "complete"
    /\ phase' = "idle"
    /\ showAnswer' = FALSE
    /\ answerSum' = 0
    /\ typedAnswer' = NoText
    /\ validationSummary' = NoText
    /\ hasValidated' = FALSE
    /\ autoRepeatRemaining' = 0
    /\ numbers' = <<>>
    /\ Did("DraftGoHome", "none")
    /\ UNCHANGED <<displayText, errorText, sessionId, answerMode,
                   autoRepeatEnabled, autoRepeatCount, autoRepeatSecondsLeft,
                   digitsPerNumber, starts, stopsPending, submitsPending,
                   acksPending, fsReqs, winFs, sessions>>

\* the Escape handler of that draft, lines 204-221: stop_session is invoked
\* and not awaited, and the budget is left as it is
DraftEscape ==
    /\ phase \in {"flashing", "starting", "countdown"}
    /\ phase' = "idle"
    /\ errorText' = ""
    /\ displayText' = Blank
    /\ showAnswer' = FALSE
    /\ answerSum' = 0
    /\ typedAnswer' = NoText
    /\ validationSummary' = NoText
    /\ hasValidated' = FALSE
    /\ numbers' = <<>>
    /\ RequestFullscreen(FALSE)
    /\ starts' = {[c EXCEPT !.cancelled = TRUE] : c \in starts}
    /\ Did("DraftEscape", "stop_session")
    /\ UNCHANGED <<sessionId, answerMode, autoRepeatEnabled, autoRepeatCount,
                   autoRepeatRemaining, autoRepeatSecondsLeft, digitsPerNumber,
                   stopsPending, submitsPending, acksPending, winFs, sessions>>

\* the idle panel of that draft, for either auto-repeat setting and for the
\* values of the Repeats input
DraftInit ==
    /\ phase = "idle"
    /\ displayText = Blank
    /\ errorText = ""
    /\ showAnswer = FALSE
    /\ answerSum = 0
    /\ typedAnswer = NoText
    /\ validationSummary = NoText
    /\ hasValidated = FALSE
    /\ sessionId = NoSession
    /\ numbers = <<>>
    /\ answerMode = "reveal"
    /\ autoRepeatEnabled \in BOOLEAN
    /\ autoRepeatCount \in RepeatInputs
    /\ autoRepeatRemaining = 0
    /\ autoRepeatSecondsLeft = NoSeconds
    /\ digitsPerNumber = InitialDigitsPerNumber
    /\ starts = {}
    /\ stopsPending = 0
    /\ submitsPending = {}
    /\ acksPending = {}
    /\ fsReqs = {}
    /\ winFs = FALSE
    /\ sessions = <<>>
    /\ lastOp = [op |-> "init", from |-> ""]
    /\ lastCmd = "none"

\* the fullscreen poll and the catch block of start() are those of the
\* latest draft
DraftNext ==
    \/ DraftStart
    \/ DraftTimerFire
    \/ \E c \in starts :
          \/ FsSetSettle(c)
          \/ FsQueryTrue(c)
          \/ FsQueryFalse(c)
          \/ FsQueryError(c)
          \/ DraftStartResolve(c)
          \/ StartReject(c)
    \/ BackendAnswer
    \/ DraftSessionComplete
    \/ DraftShowAnswer
    \/ DraftGoHome
    \/ DraftEscape

DraftSpec == DraftInit /\ [][DraftNext]_vars

(* ------------------------------ claims --------------------------------- *)
SetOf(seq) == {seq[i] : i \in DOMAIN seq}

ExitRequested == [enabled |-> FALSE, stage |-> "query"] \in fsReqs

\* the per-session fields as stop() leaves them
PerSessionReset ==
    /\ phase = "idle"
    /\ displayText = Blank
    /\ showAnswer = FALSE
    /\ answerSum = 0
    /\ typedAnswer = NoText
    /\ validationSummary = NoText
    /\ hasValidated = FALSE
    /\ autoRepeatRemaining = 0
    /\ autoRepeatSecondsLeft = NoSeconds
    /\ sessionId = NoSession
    /\ numbers = <<>>

StopDone == lastOp.op \in {"StopSettle", "StopSettleAgain"}

AllowedEdges ==
    {<<"idle", "starting">>, <<"starting", "countdown">>,
     <<"countdown", "flashing">>, <<"flashing", "complete">>,
     <<"complete", "idle">>, <<"starting", "idle">>, <<"countdown", "idle">>,
     <<"flashing", "idle">>}

\* C1: every change of phase is one of idle->starting, starting->countdown,
\* countdown->flashing, flashing->complete, complete->idle or a cancellation
\* edge from starting, countdown or flashing to idle; an event that implies
\* another change leaves phase unchanged.
C1_PhaseEdges ==
    [][phase' # phase => <<phase, phase'>> \in AllowedEdges]_vars

\* C2: when a stop() completes, whatever the phase it was called in, phase is
\* idle, the captured numbers are empty, the session id is null and the
\* answer, validation and auto-repeat fields are cleared; a stop() completing
\* right after another leaves the controller state as the first left it.
C2_StopResets ==
    /\ [](StopDone => PerSessionReset)
    /\ [][(StopDone /\ lastOp'.op = "StopSettleAgain") => ctl' = ctl]_vars

\* two stop() calls made while flashing have completed one after the other
C2_Witness ==
    /\ lastOp = [op |-> "StopSettleAgain", from |-> "flashing"]
    /\ PerSessionReset
    /\ ExitRequested

\* C3: when a start() call settles after a stop() has completed during it,
\* phase is idle, the session id is null and the effective configuration of
\* the response is not applied.
C3_CancelWins ==
    [][\A c \in starts :
          (c.cancelled /\ (StartResolve(c) \/ StartReject(c)))
             => /\ phase' = "idle"
                /\ sessionId' = NoSession
                /\ digitsPerNumber' = digitsPerNumber]_vars

\* C4: a start() call made while phase is not idle is a no-op: no reset of
\* the per-session fields, no change of phase, no fullscreen call and no
\* start_session command.
C4_StartGuard ==
    [][StartDirect => (UNCHANGED <<ctl, starts, fsReqs>> /\ lastCmd' = "none")]_vars

\* C5: stop() resets the local state in the step in which it issues
\* stop_session: once the command is out, phase is idle and the per-session
\* fields are cleared.
C5_ResetWithCommand == lastCmd = "stop_session" => PerSessionReset

\* C6: in a rollover the captured numbers are empty after the countdown_tick
\* and then hold the values of the show_number events of the new session,
\* never a number of the session before.
C6_RolloverCapture ==
    [][/\ CountdownTick => numbers' = <<>>
       /\ ShowNumber =>
             /\ phase' = "flashing"
             /\ displayText'.value \in SetOf(numbers')
             /\ SetOf(numbers') \subseteq SetOf(SessionNumbers(sessionId'))]_vars

\* C7: with auto-repeat enabled, once a tick has set seconds-left, neither an
\* auto_repeat_waiting event nor a waiting payload of a submit or acknowledge
\* response changes it.
C7_TickWins ==
    [][(/\ autoRepeatEnabled
        /\ autoRepeatSecondsLeft # NoSeconds
        /\ \/ AutoRepeatWaiting
           \/ \E s \in submitsPending : SubmitResolve(s)
           \/ \E s \in acksPending : AckSettle(s))
          => autoRepeatSecondsLeft' = autoRepeatSecondsLeft]_vars

\* C8: when the fullscreen enter-and-confirm step of start() fails, phase is
\* idle again, the error text is recorded, an exit from fullscreen has been
\* requested, and the call has ended without issuing start_session.
C8_FullscreenAbort ==
    lastOp.op \in {"FsQueryError", "FsExhausted"} =>
        /\ phase = "idle"
        /\ errorText = ErrFullscreen
        /\ ExitRequested
        /\ lastCmd = "none"

\* the poll of a start() call was exhausted without a query reporting true
C8_Witness ==
    /\ lastOp.op = "FsExhausted"
    /\ phase = "idle"
    /\ errorText = ErrFullscreen
    /\ starts = {}
    /\ sessions = <<>>

\* C9: when start_session is rejected, phase is idle, the error message is
\* the last error, the session id is null and an exit from fullscreen has
\* been requested.
C9_StartRejected ==
    lastOp.op = "StartReject" =>
        /\ phase = "idle"
        /\ errorText = ErrStartRejected
        /\ sessionId = NoSession
        /\ ExitRequested

\* C10: whenever phase is flashing, fullscreen entry had been confirmed for
\* the session being flashed (a fullscreen query had reported true on its
\* behalf), a session begun by auto-repeat rollover included.
C10_FlashConfirmed ==
    (phase = "flashing" /\ sessionId # NoSession)
        => sessions[sessionId].confirmed

\* C11: a session_complete event sets phase complete and stores the numbers
\* and the sum of its payload as the captured numbers and the expected sum,
\* whatever numbers and sum were held before.
C11_CompleteStoresPayload ==
    [][\A s \in SessionIds :
          (SessionComplete /\ sessionId' = s)
             => /\ phase' = "complete"
                /\ numbers' = SessionNumbers(s)
                /\ answerSum' = SumSeq(SessionNumbers(s))]_vars

\* the second session of an auto-repeat run has completed
C11_Witness ==
    /\ phase = "complete"
    /\ sessionId = 2
    /\ numbers = SessionNumbers(2)
    /\ answerSum = SumSeq(SessionNumbers(2))

C14_EmptyNotSubmitted ==
    [][(typedAnswer = NoText /\ ValidateCall)
          => /\ submitsPending' = submitsPending
             /\ lastCmd' # "submit_answer_text"]_vars

\* what validateTypedAnswer of part_000 made of the typed answer
Accepted == validationSummary \notin {NoText, InputErrorText}
Rejected == validationSummary = InputErrorText
Entered == validationSummary[3].value

\* C15: the typed answer is accepted only if, blanks around it aside, it is
\* a strict integer (an optional + or -, then digits): "42" is taken as 42,
\* "-17" as -17, and "4,2" is rejected.
C15_StrictParse ==
    /\ Accepted => IsStrictInteger(Trim(typedAnswer))
    /\ typedAnswer = <<"4", ",", "2">> => ~Accepted
    /\ (Accepted /\ typedAnswer = <<"4", "2">>) => Entered = 42
    /\ (Accepted /\ typedAnswer = <<"-", "1", "7">>) => Entered = -17

\* C16: for every expected sum and every accepted answer, the summary
\* reports correct exactly when provided - expected is 0, and shows the
\* difference line, with provided - expected, exactly when it is incorrect.
C16_DeltaLaw ==
    Accepted =>
        LET expected == validationSummary[2].value
            delta == Entered - expected
        IN  /\ expected = answerSum
            /\ Entered = parseUserSum(typedAnswer).value
            /\ validationSummary[1].kind = "Correct" <=> delta = 0
            /\ validationSummary[1].kind = "Incorrect" <=> delta # 0
            /\ Len(validationSummary) = 4 <=> delta # 0
            /\ Len(validationSummary) = 4
                  => validationSummary[4] = Line("Difference", delta)

\* "-17" has been validated against the expected sum 42
C16_Witness ==
    /\ typedAnswer = <<"-", "1", "7">>
    /\ answerSum = 42
    /\ hasValidated
    /\ validationSummary = <<Line("Incorrect", 0), Line("Expected answer", 42),
                             Line("You entered", -17),
                             Line("Difference", -59)>>

\* C17: while auto-repeat is disabled locally, an auto_repeat_waiting or
\* auto_repeat_tick event leaves repeats-remaining, seconds-left and every
\* other field of the controller unchanged.
C17_DisabledIgnores ==
    [][(~autoRepeatEnabled /\ (AutoRepeatWaiting \/ AutoRepeatTick))
          => ctl' = ctl]_vars

\* a tick of a run begun with auto-repeat on has arrived after the run was
\* cancelled and auto-repeat switched off
C17_Witness ==
    /\ lastOp.op = "AutoRepeatTickIgnored"
    /\ ~autoRepeatEnabled
    /\ sessions[1].ar
    /\ phase = "idle"
    /\ autoRepeatRemaining = 0
    /\ autoRepeatSecondsLeft = NoSeconds

\* C18: a waiting payload carried by a submit or acknowledge response is
\* applied as the auto_repeat_waiting event is: while auto-repeat is disabled
\* locally it leaves repeats-remaining and seconds-left unchanged.
C18_ResponseAsEvent ==
    [][(/\ ~autoRepeatEnabled
        /\ \/ \E s \in submitsPending : SubmitResolve(s)
           \/ \E s \in acksPending : AckSettle(s))
          => /\ autoRepeatRemaining' = autoRepeatRemaining
             /\ autoRepeatSecondsLeft' = autoRepeatSecondsLeft]_vars

\* C19: stop() invoked while phase is idle or complete is a no-op: when its
\* command settles right after the call, phase and every per-session field
\* are as they were.
C19_StopOutsideRun ==
    [][(/\ StopSettle
        /\ lastCmd = "stop_session"
        /\ phase \in {"idle", "complete"}) => ctl' = ctl]_vars

C21_EventsDuringStart ==
    /\ []((starts # {} /\ SessionIds # {})
             => (ENABLED ClearScreen /\ ENABLED ShowNumber))
    /\ [][(ClearScreen /\ starts # {}) => displayText' = Blank]_vars

\* a number was flashed and cleared again while a start() call was in its
\* fullscreen poll or awaiting the response
C21_Witness ==
    /\ \E c \in starts : c.pc \in {"fsQuery", "cmd", "resp"}
    /\ phase = "flashing"
    /\ displayText = Blank

\* C22: every start_session command that carries an auto-repeat
\* configuration has repeats in 1..20, and the repeats-remaining the
\* controller tracks is in 0..20, whatever was entered in the Repeats inputs.
C22_RepeatsInRange ==
    /\ autoRepeatRemaining \in 0..20
    /\ \A c \in starts : (c.pc = "cmd" /\ c.ar) => c.repeats \in 1..20

C24_StaleResponseDiscarded ==
    [][\A s \in submitsPending \cup acksPending :
          (/\ \/ s \in submitsPending /\ SubmitResolve(s)
              \/ s \in acksPending /\ AckSettle(s)
           /\ (sessionId # s \/ phase # "complete"))
             => UNCHANGED <<validationSummary, hasValidated,
                            autoRepeatRemaining, autoRepeatSecondsLeft>>]_vars

\* C25: at the moment start() issues the start_session command the session
\* id is null, the captured numbers are empty, the expected sum is 0, the
\* validation summary is empty, has-validated is false and seconds-left is
\* null, whatever events were delivered during the fullscreen poll.
C25_CleanAtCommand ==
    lastCmd = "start_session" =>
        /\ sessionId = NoSession
        /\ numbers = <<>>
        /\ answerSum = 0
        /\ validationSummary = NoText
        /\ hasValidated = FALSE
        /\ autoRepeatSecondsLeft = NoSeconds

\* C26: a show_number event adopts its session id, sets phase flashing, sets
\* the display to its value and appends the value to the captured numbers.
C26_ShowNumberAppends ==
    [][ShowNumber
         => /\ phase' = "flashing"
            /\ sessionId' \in SessionIds
            /\ displayText'.kind = "number"
            /\ numbers' = Append(numbers, displayText'.value)]_vars

\* C27: a countdown_tick sets phase countdown and leaves the session id and
\* repeats-remaining as they are; received while phase is complete it hides
\* the answer and clears the expected sum, the typed answer, the validation
\* summary, has-validated and seconds-left; received in any other phase it
\* leaves all of these as they are.
C27_TickClearsAfterComplete ==
    [][CountdownTick
         => /\ phase' = "countdown"
            /\ sessionId' = sessionId
            /\ autoRepeatRemaining' = autoRepeatRemaining
            /\ IF phase = "complete"
                  THEN /\ showAnswer' = FALSE
                       /\ answerSum' = 0
                       /\ typedAnswer' = NoText
                       /\ validationSummary' = NoText
                       /\ hasValidated' = FALSE
                       /\ autoRepeatSecondsLeft' = NoSeconds
                  ELSE UNCHANGED <<showAnswer, answerSum, typedAnswer,
                                   validationSummary, hasValidated,
                                   autoRepeatSecondsLeft>>]_vars

\* a countdown_tick has followed the completion of a session: the numbers of
\* the session are still held, its sum and validation state are cleared
C27_Witness ==
    /\ phase = "countdown"
    /\ sessionId # NoSession
    /\ numbers # <<>>
    /\ answerSum = 0
    /\ validationSummary = NoText
    /\ ~hasValidated

\* C28: a clear_screen event empties the display value and changes nothing
\* else of the controller: phase, session id, captured numbers, sums,
\* validation state and auto-repeat fields are as they were, in every phase.
C28_ClearOnlyDisplay ==
    [][ClearScreen
         => /\ displayText' = Blank
            /\ UNCHANGED <<phase, errorText, showAnswer, answerSum,
                           typedAnswer, validationSummary, hasValidated,
                           sessionId, numbers, answerMode, autoRepeatEnabled,
                           autoRepeatCount, autoRepeatRemaining,
                           autoRepeatSecondsLeft, digitsPerNumber>>]_vars

\* a flashed number of a later round has been cleared: the display is empty
\* while phase is still flashing, and the session id and the numbers of the
\* round before are still held
C28_Witness ==
    /\ phase = "flashing"
    /\ displayText = Blank
    /\ sessionId # NoSession
    /\ numbers # <<>>

\* C29: after a session_complete event, whatever the state before it, the
\* typed answer and the validation summary are empty, has-validated is
\* false, the answer is hidden, seconds-left is null and an exit from
\* fullscreen has been requested; repeats-remaining is as it was.
C29_CompleteClears ==
    [][SessionComplete
         => /\ typedAnswer' = NoText
            /\ validationSummary' = NoText
            /\ hasValidated' = FALSE
            /\ showAnswer' = FALSE
            /\ autoRepeatSecondsLeft' = NoSeconds
            /\ ExitRequested'
            /\ autoRepeatRemaining' = autoRepeatRemaining]_vars

\* the answer had been revealed, which marks the round validated, and a
\* session_complete that arrived before the acknowledgment settled has
\* cleared both
C29_Witness ==
    /\ phase = "complete"
    /\ acksPending # {}
    /\ ~hasValidated
    /\ ~showAnswer
    /\ autoRepeatSecondsLeft = NoSeconds

\* C30: once the session_complete of the tracked session has been handled,
\* a later event that carries the same session id, a repeated
\* session_complete or a late show_number, leaves the stored numbers and
\* the expected sum as they are.
C30_CompletedImmutable ==
    [][(/\ phase = "complete"
        /\ sessionId # NoSession
        /\ ShowNumber \/ SessionComplete
        /\ sessionId' = sessionId)
          => (numbers' = numbers /\ answerSum' = answerSum)]_vars

\* C31: when an auto-repeat-waiting payload is applied while auto-repeat is
\* enabled, repeats-remaining is the payload's remaining and seconds-left is
\* a number, the seconds until the payload's deadline, and not null.
C31_WaitingSetsSeconds ==
    [][(AutoRepeatWaiting /\ autoRepeatEnabled)
         => /\ autoRepeatRemaining' \in 0..MaxRemaining
            /\ autoRepeatSecondsLeft' # NoSeconds]_vars

\* C32: no local countdown is running while phase is starting, countdown or
\* flashing, nor while auto-repeat is disabled: the timer is cancelled when
\* the next session begins or auto-repeat is switched off, also a timer
\* armed by the waiting payload of a late acknowledge response.
C32_TimerCancelled ==
    (phase \in {"starting", "countdown", "flashing"} \/ ~autoRepeatEnabled)
        => ~TimerRunning

\* a start() call that is in forceFullscreenBeforeStart
Polling(c) == c.pc \in {"fsSet", "fsQuery"}

\* C33: the fullscreen enter-and-confirm operation terminates whatever the
\* window manager answers: a call has at most 30 queries (29 answered and
\* one in flight), every query that reports false is followed by the next
\* query of the same call or by its failure, and every call that is in the
\* operation leaves it.
C33_PollTerminates ==
    /\ [](\A c \in starts : c.i < MaxFullscreenAttempts)
    /\ [][\A c \in starts :
             (c.pc = "fsQuery" /\ FsQueryFalse(c))
                => \A d \in starts' : d.pc = "fsQuery" /\ d.i = c.i + 1]_vars
    /\ (\E c \in starts : Polling(c)) ~> (\A c \in starts : ~Polling(c))

\* thirty queries of one call reported false and the call has failed, the
\* window still not fullscreen
C33_Witness ==
    /\ lastOp.op = "FsExhausted"
    /\ ~winFs
    /\ \A c \in starts : ~Polling(c)

C35_TimerBudget ==
    /\ [](autoRepeatRemaining \in 0..20)
    /\ [][DraftTimerFire
            => /\ phase = "complete" /\ autoRepeatEnabled /\ hasValidated
               /\ autoRepeatRemaining > 0
               /\ autoRepeatRemaining' = autoRepeatRemaining - 1
               /\ phase' = "starting"]_vars
    /\ [][(autoRepeatRemaining' > autoRepeatRemaining) => DraftStart]_vars
    /\ [](phase # "complete" => ~ENABLED DraftTimerFire)

\* the timer has made the last start of the budget
C35_Witness ==
    /\ lastOp.op = "DraftTimerFire"
    /\ phase = "starting"
    /\ autoRepeatEnabled
    /\ autoRepeatRemaining = 0

\* C36: start() issues the start_session command only while phase is
\* starting; a start() call during whose fullscreen poll a cancel has put
\* phase back to idle does not issue it.
C36_CommandOnlyWhileStarting ==
    [][\A c \in starts :
          (FsQueryTrue(c) /\ lastCmd' = "start_session")
             => (phase = "starting" /\ ~c.cancelled)]_vars

\* C37: once every setFullscreen request in flight has settled, the window
\* is as the most recent request asked: not fullscreen after a
\* session_complete or a stop() (phase complete or idle), fullscreen after a
\* show_number (phase flashing).
C37_LastRequestWins ==
    fsReqs = {} =>
        /\ (phase \in {"complete", "idle"} => ~winFs)
        /\ (phase = "flashing" => winFs)

\* C38: has-validated is true only while phase is complete: in every other
\* phase has-validated is false and the validation summary is empty, also
\* when a submit-answer or acknowledge-complete response arrives after the
\* next countdown has begun.
C38_ValidatedOnlyComplete ==
    phase # "complete" => (~hasValidated /\ validationSummary = NoText)

\* C39: whenever phase is idle the session id is null and the captured
\* numbers are empty.
C39_IdleIsClean ==
    phase = "idle" => (sessionId = NoSession /\ numbers = <<>>)

\* C40: whenever phase is complete the tracked session id is that of the
\* session_complete event handled last and the stored numbers and sum are
\* that event's; a start_session response that arrives while phase is
\* complete leaves the session id as it is; and a submit or acknowledge
\* command sent from the complete screen names the tracked session.
C40_CompleteTracksEvent ==
    /\ [](phase = "complete"
            => /\ sessionId # NoSession
               /\ numbers = SessionNumbers(sessionId)
               /\ answerSum = SumSeq(numbers))
    /\ [][\A c \in starts :
            (StartResolve(c) /\ phase = "complete")
               => sessionId' = sessionId]_vars
    /\ [][(phase = "complete" /\ lastCmd' = "acknowledge_complete")
            => sessionId \in acksPending']_vars

====
